---- MODULE Spec2Model ----
(***************************************************************************)
(* Model of the coverage-gap engine of GeoCare's web application           *)
(* (src/webapp/src/App.jsx, component App, lines 1553-2810).               *)
(*                                                                         *)
(* Spec       : the recompute orchestrator -- the React state of App, the  *)
(*              handleSearch handler and the recompute useEffect with its  *)
(*              debounce timer, its cancelled flag and its cleanup.        *)
(* SpecDesert : the desertLayer computation (union fold, difference loop)  *)
(*              run over bounded inputs.                                   *)
(* SpecStats  : the coveragePopulationStats computation run over bounded   *)
(*              population layers, accessibility layers and scopes.        *)
(* SpecStep   : the step a single accessibility value is assigned to.      *)
(* SpecStatsFrame : the statistics memo across renders that change the     *)
(*              coverage mode, the buffer layer, the search AOI or the aoi.*)
(* SpecQuantile : the quantile that scales the population markers.         *)
(*                                                                         *)
(* In Spec layers are modelled by their identity (which response delivered *)
(* them); elasticity is a fixed-point number in units of 1e-10.            *)
(***************************************************************************)
EXTENDS Integers, Sequences, FiniteSets, TLC

\* ------------------------------------------------------------------ bounds
MaxSearches == 2
MaxInstances == 2
NumStars == 2
NumDistances == 2
TickMs == 125

\* ------------------------------------------------------- program constants
DEFAULT_MAX_DISTANCE == 80000
DEFAULT_ELASTICITY == 1000000000
DEBOUNCE_MS == 250
ELASTICITY_TOLERANCE == 10
DISTANCE_STEP == 1000
ELASTICITY_STEP == 1000000000
ServerElasticityOffset == 5

Stars == 1..NumStars
DistanceValues == {DEFAULT_MAX_DISTANCE - k * DISTANCE_STEP : k \in 0..(NumDistances - 1)}
SliderElasticities == {DEFAULT_ELASTICITY, DEFAULT_ELASTICITY + ELASTICITY_STEP}
\* the effective configuration a search response may report: a distance on
\* the slider's grid, an elasticity half a tolerance away from the default
ServerDistance == DEFAULT_MAX_DISTANCE - DISTANCE_STEP
ServerElasticity == DEFAULT_ELASTICITY + ServerElasticityOffset
NoValue == -1

Abs(x) == IF x < 0 THEN -x ELSE x
Min(a, b) == IF a < b THEN a ELSE b
Max(a, b) == IF a > b THEN a ELSE b

\* ------------------------------------------------------------------ layers
Null == [src |-> "none", id |-> 0]
SearchLayer(s) == [src |-> "search", id |-> s]
RecomputeLayer(i) == [src |-> "recompute", id |-> i]

VARIABLES
  \* React state of App
  facilitiesLayer, isochronesLayer, h3AccessibilityLayer, h3PopulationLayer,
  aoiLayer, origIsochronesLayer, origH3AccessibilityLayer,
  minConfidence, maxDistance, elasticity, baseCoverageParams,
  isRecomputing,
  \* asynchronous activity
  searches,      \* search requests in flight, with the maxDistance their closure captured
  nextSearch,
  instances,     \* one entry per run of the effect body that armed a timer
  current,       \* the instance whose cleanup React holds, 0 if none
  nextInst,
  lastReply,     \* the recompute reply the last step handled, NoReply for any other step
  \* desertLayer computation
  coverageMode,
  dpc,            \* position in the useMemo callback: "idle", "start", "fold", "diff", "done"
  foldIdx,        \* index of the feature the running loop handles next
  coverageUnion,  \* <<>> for null, else <<feature>>
  merged,         \* indices of the coverage features folded into coverageUnion (history)
  unionFailures,  \* indices of the coverage features whose union threw (history)
  prevDesert,     \* <<>> or <<the value the memo held before its inputs changed>> (history)
  desertFeatures,
  desertLayer,
  \* coveragePopulationStats computation
  aoi,                      \* the drawn scoping polygons
  statsPc,                  \* "idle", "stale" (inputs set, memo not run), "done"
  coveragePopulationStats,
  scopedPopFeatures,        \* the callback's local of that name, <<>> before it is set
  \* the step a single accessibility value is assigned to
  probe,
  probeStep,
  prevStats,                \* <<>> or <<the statistics computed before an unrelated change>> (history)
  \* populationBallMarkers: the quantile that scales the markers
  populations,              \* the sample: the positive populations of the layer
  quantileQ,                \* q, in tenths
  p90,                      \* the value quantile returned
  markersPc                 \* "idle", "stale", "done"

orchVars == <<facilitiesLayer, isochronesLayer, h3AccessibilityLayer, h3PopulationLayer,
              aoiLayer, origIsochronesLayer, origH3AccessibilityLayer,
              minConfidence, maxDistance, elasticity, baseCoverageParams,
              isRecomputing, searches, nextSearch, instances, current,
              nextInst, lastReply>>
desertVars == <<coverageMode, dpc, foldIdx, coverageUnion, merged, unionFailures,
                prevDesert, desertFeatures, desertLayer>>
statsVars == <<aoi, statsPc, coveragePopulationStats, scopedPopFeatures, probe, probeStep,
               prevStats>>
markerVars == <<populations, quantileQ, p90, markersPc>>
vars == <<orchVars, desertVars, statsVars, markerVars>>

\* --------------------------------------------------- effect instance records
\* phase: "unused", "timer" (debounce pending), "inflight" (fetch sent),
\* "cleared" (clearTimeout before it fired), "finished" (reply handled).  cancelled is the closure's
\* flag; minStars/maxDistance/elasticity are the values the closure captured
\* for the request body.  stale and issued are history fields the program
\* does not read: superseded by a dependency change; requests sent.
Unused == [phase |-> "unused", cancelled |-> FALSE, stale |-> FALSE, remaining |-> 0,
           issued |-> 0, minStars |-> 0, maxDistance |-> 0, elasticity |-> 0]

Finished == [Unused EXCEPT !.phase = "finished"]
Cleared == [Unused EXCEPT !.phase = "cleared"]

NoReply == [kind |-> "none", isochrones |-> FALSE, h3_accessibility |-> FALSE]

NewInstance(mc, md, el) ==
  [phase |-> "timer", cancelled |-> FALSE, stale |-> FALSE, remaining |-> DEBOUNCE_MS,
   issued |-> 0, minStars |-> mc, maxDistance |-> md, elasticity |-> el]

InstanceIds == 1..MaxInstances

\* The React state as one record, so that a handler can build the state it
\* sets and the effect can be applied to it.
Cur ==
  [facilitiesLayer |-> facilitiesLayer, isochronesLayer |-> isochronesLayer,
   h3AccessibilityLayer |-> h3AccessibilityLayer, h3PopulationLayer |-> h3PopulationLayer,
   aoiLayer |-> aoiLayer, origIsochronesLayer |-> origIsochronesLayer,
   origH3AccessibilityLayer |-> origH3AccessibilityLayer,
   minConfidence |-> minConfidence, maxDistance |-> maxDistance, elasticity |-> elasticity,
   baseCoverageParams |-> baseCoverageParams, isRecomputing |-> isRecomputing,
   instances |-> instances, current |-> current,
   nextInst |-> nextInst]

Commit(s) ==
  /\ facilitiesLayer' = s.facilitiesLayer
  /\ isochronesLayer' = s.isochronesLayer
  /\ h3AccessibilityLayer' = s.h3AccessibilityLayer
  /\ h3PopulationLayer' = s.h3PopulationLayer
  /\ aoiLayer' = s.aoiLayer
  /\ origIsochronesLayer' = s.origIsochronesLayer
  /\ origH3AccessibilityLayer' = s.origH3AccessibilityLayer
  /\ minConfidence' = s.minConfidence
  /\ maxDistance' = s.maxDistance
  /\ elasticity' = s.elasticity
  /\ baseCoverageParams' = s.baseCoverageParams
  /\ isRecomputing' = s.isRecomputing
  /\ instances' = s.instances
  /\ current' = s.current
  /\ nextInst' = s.nextInst

\* ------------------------------------------------- the recompute useEffect
\* Dependency array of the effect.
Deps(s) ==
  <<s.minConfidence, s.maxDistance, s.elasticity, s.facilitiesLayer,
    s.origIsochronesLayer, s.origH3AccessibilityLayer,
    s.baseCoverageParams.maxDistance, s.baseCoverageParams.elasticity>>

IsAtBaseParams(md, el, base) ==
  /\ md = base.maxDistance
  /\ Abs(el - base.elasticity) < ELASTICITY_TOLERANCE

\* return () => { cancelled = true; clearTimeout(timer); }
CleanupNoCancel(insts, cur) ==
  IF cur = 0 THEN insts
  ELSE [insts EXCEPT ![cur] = IF @.phase = "timer" THEN Cleared ELSE @]

\* an effect without a cleanup function
NoCleanup(insts, cur) == insts

CleanupNoClear(insts, cur) ==
  IF cur = 0 THEN insts
  ELSE [insts EXCEPT ![cur].cancelled = TRUE]

Cleanup(insts, cur) ==
  IF cur = 0 THEN insts
  ELSE [insts EXCEPT ![cur] = IF @.phase = "timer" THEN Cleared
                                 ELSE [@ EXCEPT !.cancelled = TRUE]]

\* Every instance armed before a dependency change is superseded by it
\* (history flag, not read by the program).
MarkStale(insts) ==
  [i \in InstanceIds |-> IF insts[i].phase \in {"timer", "inflight"}
                         THEN [insts[i] EXCEPT !.stale = TRUE]
                         ELSE insts[i]]

\* if (origLayer) setLayer(origLayer)
Restore(orig, active) == IF orig # Null THEN orig ELSE active

\* The effect body, run on the state s that the render committed.
EffectBody(s) ==
  IF s.facilitiesLayer = Null THEN [s EXCEPT !.current = 0]
  ELSE IF s.minConfidence = 1
          /\ IsAtBaseParams(s.maxDistance, s.elasticity, s.baseCoverageParams)
       THEN [s EXCEPT !.isochronesLayer = Restore(s.origIsochronesLayer, @),
                      !.h3AccessibilityLayer = Restore(s.origH3AccessibilityLayer, @),
                      !.isRecomputing = FALSE,
                      !.current = 0]
       ELSE [s EXCEPT !.instances =
                         IF s.nextInst \in InstanceIds
                         THEN [@ EXCEPT ![s.nextInst] =
                                 NewInstance(s.minConfidence, s.maxDistance, s.elasticity)]
                         ELSE @,
                      !.current = s.nextInst,
                      !.nextInst = s.nextInst + 1]

\* React re-runs the effect (cleanup of the previous run, then the body) when
\* a dependency differs from the previous render.  The setState calls of one
\* handler (or of one continuation after an await) are batched into a single
\* render, so the effect sees the state s they produce together.
Render(s) ==
  IF Deps(s) = Deps(Cur) THEN s
  ELSE EffectBody([s EXCEPT !.instances = MarkStale(Cleanup(s.instances, s.current))])

\* The effect arms a timer only while an instance id is left.
WithinBound(s) == s.nextInst <= MaxInstances + 1

\* ------------------------------------------------------------ user actions
\* <ConfidenceFilter onChange={setMinConfidence}>
SetMinConfidence(star) ==
  /\ star # minConfidence
  /\ LET s == Render([Cur EXCEPT !.minConfidence = star])
     IN WithinBound(s) /\ Commit(s)
  /\ lastReply' = NoReply
  /\ UNCHANGED <<searches, nextSearch, desertVars, statsVars, markerVars>>

\* onChange={(e) => setMaxDistance(Number(e.target.value))}
SetMaxDistance(v) ==
  /\ v # maxDistance
  /\ LET s == Render([Cur EXCEPT !.maxDistance = v])
     IN WithinBound(s) /\ Commit(s)
  /\ lastReply' = NoReply
  /\ UNCHANGED <<searches, nextSearch, desertVars, statsVars, markerVars>>

\* onChange={(e) => setElasticity(Number(e.target.value))}
SetElasticity(v) ==
  /\ v # elasticity
  /\ LET s == Render([Cur EXCEPT !.elasticity = v])
     IN WithinBound(s) /\ Commit(s)
  /\ lastReply' = NoReply
  /\ UNCHANGED <<searches, nextSearch, desertVars, statsVars, markerVars>>

\* handleSearch up to its await: clears two layers and sends the request.
SearchStart ==
  /\ nextSearch <= MaxSearches
  /\ LET s == Render([Cur EXCEPT !.facilitiesLayer = Null, !.isochronesLayer = Null])
     IN Commit(s)
  /\ searches' = searches \cup
        {[id |-> nextSearch, maxDistance |-> maxDistance]}
  /\ nextSearch' = nextSearch + 1
  /\ lastReply' = NoReply
  /\ UNCHANGED <<desertVars, statsVars, markerVars>>

\* ------------------------------------------------------- search responses
\* Response bodies of the search service: which layers data.layers holds
\* (complete, or without facilities, or without isochrones) and the
\* data.config it reports (elasticity always, max_distance possibly missing).
MissingKinds == {"nothing", "facilities", "isochrones"}

SearchConfigs ==
  {[max_distance |-> NoValue, elasticity |-> DEFAULT_ELASTICITY],
   [max_distance |-> ServerDistance, elasticity |-> ServerElasticity]}

SearchData ==
  {[aoi |-> TRUE, facilities |-> missing # "facilities",
    isochrones |-> missing # "isochrones",
    h3_accessibility |-> TRUE, h3_population |-> TRUE,
    max_distance |-> c.max_distance, elasticity |-> c.elasticity] :
      missing \in MissingKinds, c \in SearchConfigs}

\* data.config?.x ?? x, with x the value the handler's closure captured
Coalesce(cfg, captured) == IF cfg = NoValue THEN captured ELSE cfg

\* if (data.layers?.x) setX(data.layers.x)
SetIfPresent(present, layer, old) == IF present THEN layer ELSE old

\* handleSearch after a successful response, without setMinConfidence(1)
SearchAppliedKeepingConfidence(req, data) ==
  LET L == SearchLayer(req.id)
      cfg == [maxDistance |-> Coalesce(data.max_distance, req.maxDistance),
              elasticity |-> data.elasticity]
  IN [Cur EXCEPT
        !.aoiLayer = SetIfPresent(data.aoi, L, @),
        !.facilitiesLayer = SetIfPresent(data.facilities, L, @),
        !.isochronesLayer = SetIfPresent(data.isochrones, L, @),
        !.origIsochronesLayer = SetIfPresent(data.isochrones, L, @),
        !.h3AccessibilityLayer = SetIfPresent(data.h3_accessibility, L, @),
        !.origH3AccessibilityLayer = SetIfPresent(data.h3_accessibility, L, @),
        !.h3PopulationLayer = SetIfPresent(data.h3_population, L, @),
        !.baseCoverageParams = cfg,
        !.maxDistance = cfg.maxDistance,
        !.elasticity = cfg.elasticity]

\* handleSearch after a successful, error-free response.
SearchApplied(req, data) ==
  LET L == SearchLayer(req.id)
      cfg == [maxDistance |-> Coalesce(data.max_distance, req.maxDistance),
              elasticity |-> data.elasticity]
  IN [Cur EXCEPT
        !.aoiLayer = SetIfPresent(data.aoi, L, @),
        !.facilitiesLayer = SetIfPresent(data.facilities, L, @),
        !.isochronesLayer = SetIfPresent(data.isochrones, L, @),
        !.origIsochronesLayer = SetIfPresent(data.isochrones, L, @),
        !.h3AccessibilityLayer = SetIfPresent(data.h3_accessibility, L, @),
        !.origH3AccessibilityLayer = SetIfPresent(data.h3_accessibility, L, @),
        !.h3PopulationLayer = SetIfPresent(data.h3_population, L, @),
        !.baseCoverageParams = cfg,
        !.maxDistance = cfg.maxDistance,
        !.elasticity = cfg.elasticity,
        !.minConfidence = 1]

SearchSuccess(req, data) ==
  /\ req \in searches
  /\ LET s == Render(SearchApplied(req, data))
     IN WithinBound(s) /\ Commit(s)
  /\ searches' = searches \ {req}
  /\ lastReply' = NoReply
  /\ UNCHANGED <<nextSearch, desertVars, statsVars, markerVars>>

\* !res.ok, data.error or a rejected fetch: only searchError/isSearching change.
SearchFailure(req) ==
  /\ req \in searches
  /\ searches' = searches \ {req}
  /\ Commit(Cur)
  /\ lastReply' = NoReply
  /\ UNCHANGED <<nextSearch, desertVars, statsVars, markerVars>>

\* ---------------------------------------------------- debounce timer, fetch
\* Time passes: pending timers count down.
Tick ==
  /\ \E i \in InstanceIds : instances[i].phase = "timer" /\ instances[i].remaining > 0
  /\ lastReply' = NoReply
  /\ instances' = [i \in InstanceIds |->
                     IF instances[i].phase = "timer"
                     THEN [instances[i] EXCEPT !.remaining = Max(0, @ - TickMs)]
                     ELSE instances[i]]
  /\ UNCHANGED <<facilitiesLayer, isochronesLayer, h3AccessibilityLayer, h3PopulationLayer,
                 aoiLayer, origIsochronesLayer, origH3AccessibilityLayer,
                 minConfidence, maxDistance, elasticity, baseCoverageParams,
                 isRecomputing, searches, nextSearch, current, nextInst,
                 desertVars, statsVars, markerVars>>

\* The request is on the wire; its body was built from the captured values.
Sent(inst) ==
  [inst EXCEPT !.phase = "inflight", !.issued = Min(2, @ + 1),
               !.minStars = 0, !.maxDistance = 0, !.elasticity = 0]

\* The setTimeout callback: setIsRecomputing(true) and the fetch is sent.
TimerFire(i) ==
  /\ instances[i].phase = "timer"
  /\ instances[i].remaining = 0
  /\ isRecomputing' = TRUE
  /\ lastReply' = NoReply
  /\ instances' = [instances EXCEPT ![i] = Sent(@)]
  /\ UNCHANGED <<facilitiesLayer, isochronesLayer, h3AccessibilityLayer, h3PopulationLayer,
                 aoiLayer, origIsochronesLayer, origH3AccessibilityLayer,
                 minConfidence, maxDistance, elasticity, baseCoverageParams,
                 searches, nextSearch, current, nextInst,
                 desertVars, statsVars, markerVars>>

\* What the recompute service can answer.  "ok" and "error_reply" carry a JSON
\* body (an error reply has no layers); the other two reject the promise chain.
Replies ==
  [kind : {"ok"}, isochrones : BOOLEAN, h3_accessibility : BOOLEAN]
  \cup [kind : {"error_reply", "transport_error", "unparsable"},
        isochrones : {FALSE}, h3_accessibility : {FALSE}]

FailureKinds == {"error_reply", "transport_error", "unparsable"}

\* fetch(...).then((res) => res.json()) resolves
Parsed(reply) == reply.kind \in {"ok", "error_reply"}

\* .then((data) => { if (cancelled) return; if (data.layers?.x) setX(..) else setX(null) })
ThenLayerKeepingAbsent(inst, i, reply, present, old) ==
  IF ~Parsed(reply) \/ inst.cancelled THEN old
  ELSE IF present THEN RecomputeLayer(i) ELSE old

ThenLayer(inst, i, reply, present, old) ==
  IF ~Parsed(reply) \/ inst.cancelled THEN old
  ELSE IF present THEN RecomputeLayer(i) ELSE Null

\* The then handler sets no other layer.
ThenWritesPopulation(inst, i, reply, old) ==
  IF ~Parsed(reply) \/ inst.cancelled THEN old ELSE RecomputeLayer(i)

ThenOtherLayer(inst, i, reply, old) == old

\* The then handler calls neither setOrigIsochronesLayer nor
\* setOrigH3AccessibilityLayer: the originals keep the value they had.
ThenOverwritesOriginal(inst, i, reply, present, old) ==
  IF ~Parsed(reply) \/ inst.cancelled THEN old
  ELSE IF present THEN RecomputeLayer(i) ELSE old

ThenOriginal(inst, i, reply, present, old) == old

\* .finally(() => { if (!cancelled) setIsRecomputing(false); })
Finally(inst, old) == IF ~inst.cancelled THEN FALSE ELSE old

\* .catch((err) => console.error(...)): the chain ends, nothing is re-armed.
SettledWithRetry(inst, reply) ==
  IF Parsed(reply) THEN Finished ELSE [inst EXCEPT !.phase = "timer"]

Settled(inst, reply) == Finished

\* then, catch and finally run as consecutive microtasks: no event, timer or
\* cleanup can run between them, so the chain is one step.
RecomputeResponse(i, reply) ==
  /\ instances[i].phase = "inflight"
  /\ isochronesLayer' = ThenLayer(instances[i], i, reply, reply.isochrones, isochronesLayer)
  /\ h3AccessibilityLayer' =
        ThenLayer(instances[i], i, reply, reply.h3_accessibility, h3AccessibilityLayer)
  /\ h3PopulationLayer' = ThenOtherLayer(instances[i], i, reply, h3PopulationLayer)
  /\ aoiLayer' = ThenOtherLayer(instances[i], i, reply, aoiLayer)
  /\ origIsochronesLayer' =
        ThenOriginal(instances[i], i, reply, reply.isochrones, origIsochronesLayer)
  /\ origH3AccessibilityLayer' =
        ThenOriginal(instances[i], i, reply, reply.h3_accessibility, origH3AccessibilityLayer)
  /\ isRecomputing' = Finally(instances[i], isRecomputing)
  /\ lastReply' = reply
  /\ instances' = [instances EXCEPT ![i] = Settled(instances[i], reply)]
  /\ UNCHANGED <<facilitiesLayer,
                 minConfidence, maxDistance, elasticity, baseCoverageParams,
                 searches, nextSearch, current, nextInst,
                 desertVars, statsVars, markerVars>>

\* ------------------------------------------------------------ specification
DesertIdle ==
  /\ coverageMode = "buffers"
  /\ dpc = "idle" /\ foldIdx = 0
  /\ coverageUnion = <<>>
  /\ merged = {}
  /\ unionFailures = {}
  /\ prevDesert = <<>>
  /\ desertFeatures = <<>>
  /\ desertLayer = Null

\* no statistics are being computed
StatsIdle ==
  /\ aoi = Null
  /\ statsPc = "idle"
  /\ coveragePopulationStats = Null
  /\ scopedPopFeatures = <<>>
  /\ probe = Null
  /\ probeStep = ""
  /\ prevStats = <<>>

\* no marker is being scaled
MarkersIdle ==
  /\ populations = <<>>
  /\ quantileQ = 0
  /\ p90 = Null
  /\ markersPc = "idle"

\* the orchestrator's state other than the three layers desertLayer reads
OrchIdle ==
  /\ facilitiesLayer = Null
  /\ h3PopulationLayer = Null
  /\ origIsochronesLayer = Null
  /\ origH3AccessibilityLayer = Null
  /\ minConfidence = 1
  /\ maxDistance = DEFAULT_MAX_DISTANCE
  /\ elasticity = DEFAULT_ELASTICITY
  /\ baseCoverageParams = [maxDistance |-> DEFAULT_MAX_DISTANCE,
                           elasticity |-> DEFAULT_ELASTICITY]
  /\ isRecomputing = FALSE
  /\ searches = {}
  /\ nextSearch = 1
  /\ instances = [i \in InstanceIds |-> Unused]
  /\ current = 0
  /\ nextInst = 1
  /\ lastReply = NoReply

OrchInit ==
  /\ OrchIdle
  /\ isochronesLayer = Null
  /\ h3AccessibilityLayer = Null
  /\ aoiLayer = Null

Init == OrchInit /\ DesertIdle /\ StatsIdle /\ MarkersIdle

Next ==
  \/ \E star \in Stars : SetMinConfidence(star)
  \/ \E v \in DistanceValues : SetMaxDistance(v)
  \/ \E v \in SliderElasticities : SetElasticity(v)
  \/ SearchStart
  \/ \E req \in searches : \E data \in SearchData : SearchSuccess(req, data)
  \/ \E req \in searches : SearchFailure(req)
  \/ Tick
  \/ \E i \in InstanceIds : TimerFire(i)
  \/ \E i \in InstanceIds : \E reply \in Replies : RecomputeResponse(i, reply)

Spec == Init /\ [][Next]_vars

\* ============================================================================
\* desertLayer: AOI minus the union of the active coverage layer.
\* In SpecDesert the three layers hold their content: a layer is
\* [present, features], a feature is [hasGeometry, cells, bad], where cells is
\* the region the geometry covers (a set of atoms of the plane) and bad marks a
\* geometry on which turf's polygon clipping throws.
\* ============================================================================
NumAtoms == 2
MaxCoverage == 3
MaxAoi == 2

Atoms == 1..NumAtoms

NullLayer == [present |-> FALSE, features |-> <<>>]
NoGeometry == [hasGeometry |-> FALSE, cells |-> {}, bad |-> FALSE]
Degenerate == [hasGeometry |-> TRUE, cells |-> Atoms, bad |-> TRUE]
Geometries == [hasGeometry : {TRUE}, cells : SUBSET Atoms, bad : {FALSE}] \cup {Degenerate}

SeqsUpTo(S, n) == UNION {[1..k -> S] : k \in 0..n}

CoverageLayers ==
  {NullLayer} \cup
  {[present |-> TRUE, features |-> fs] : fs \in SeqsUpTo(Geometries \cup {NoGeometry}, MaxCoverage)}

AoiLayers ==
  {NullLayer} \cup
  {[present |-> TRUE, features |-> fs] :
     fs \in SeqsUpTo({g \in Geometries : g.cells # {}}, MaxAoi)}

\* the layer that is not displayed: absent, or one cell covering everything
InactiveLayers ==
  {NullLayer,
   [present |-> TRUE, features |-> <<[hasGeometry |-> TRUE, cells |-> Atoms, bad |-> FALSE]>>]}

\* coverageMode === 'buffers' ? isochronesLayer : h3AccessibilityLayer
CoverageDataOtherLayer ==
  IF coverageMode = "buffers" THEN h3AccessibilityLayer ELSE isochronesLayer

CoverageData ==
  IF coverageMode = "buffers" THEN isochronesLayer ELSE h3AccessibilityLayer

\* !coverageData?.features?.length
NoFeatures(layer) == ~layer.present \/ Len(layer.features) = 0

\* turf union(featureCollection([a, b])): throws on a degenerate input,
\* returns null when the result is empty.
UnionThrows(a, b) == a.bad \/ b.bad

UnionKeepsSecond(a, b) == IF b.cells = {} THEN <<>> ELSE <<b>>

Union(a, b) ==
  IF a.cells \cup b.cells = {} THEN <<>>
  ELSE <<[hasGeometry |-> TRUE, cells |-> a.cells \cup b.cells, bad |-> FALSE]>>

\* turf difference(featureCollection([a, b])): throws on a degenerate input
\* or a missing geometry, returns null when nothing is left.
DifferenceThrows(a, b) == ~a.hasGeometry \/ a.bad \/ b.bad

Difference(a, b) ==
  IF a.cells \ b.cells = {} THEN <<>>
  ELSE <<[hasGeometry |-> TRUE, cells |-> a.cells \ b.cells, bad |-> FALSE]>>

\* catch (e) { console.warn('Union failed for feature, skipping:', e); }
UnionCaughtResets(acc) == <<>>

UnionCaught(acc) == acc

\* One iteration of: for (const feature of coverageData.features) { ... }
FoldFeature(acc, feature) ==
  IF ~feature.hasGeometry THEN acc
  ELSE IF acc = <<>> THEN <<feature>>
  ELSE IF UnionThrows(acc[1], feature) THEN UnionCaught(acc)
  ELSE Union(acc[1], feature)

\* if (!aoiLayer) return null; if (!coverageData?.features?.length) return aoiLayer;
DesertStart ==
  /\ dpc = "start"
  /\ IF ~aoiLayer.present
       THEN /\ desertLayer' = NullLayer
            /\ dpc' = "done"
            /\ foldIdx' = foldIdx
       ELSE IF NoFeatures(CoverageData)
       THEN /\ desertLayer' = aoiLayer
            /\ dpc' = "done"
            /\ foldIdx' = foldIdx
       ELSE /\ desertLayer' = desertLayer
            /\ dpc' = "fold"
            /\ foldIdx' = 1
  /\ coverageUnion' = <<>>
  /\ merged' = {}
  /\ unionFailures' = {}
  /\ UNCHANGED <<coverageMode, prevDesert, desertFeatures, orchVars, statsVars, markerVars>>

\* Whether the iteration folds the feature in: it seeds, or its union succeeds.
FoldsIn(acc, feature) ==
  /\ feature.hasGeometry
  /\ acc = <<>> \/ ~UnionThrows(acc[1], feature)

FoldStep ==
  /\ dpc = "fold"
  /\ foldIdx <= Len(CoverageData.features)
  /\ LET feature == CoverageData.features[foldIdx]
     IN /\ coverageUnion' = FoldFeature(coverageUnion, feature)
        /\ merged' = IF FoldsIn(coverageUnion, feature)
                     THEN (IF coverageUnion = <<>> THEN {} ELSE merged) \cup {foldIdx}
                     ELSE merged
        /\ unionFailures' = IF feature.hasGeometry /\ ~FoldsIn(coverageUnion, feature)
                            THEN unionFailures \cup {foldIdx}
                            ELSE unionFailures
  /\ foldIdx' = foldIdx + 1
  /\ UNCHANGED <<coverageMode, dpc, prevDesert, desertFeatures, desertLayer, orchVars, statsVars, markerVars>>

\* if (!coverageUnion) return aoiLayer;
AfterFoldReturnsNull(layer) == NullLayer

AfterFoldNoUnion(layer) == layer

FoldEnd ==
  /\ dpc = "fold"
  /\ foldIdx > Len(CoverageData.features)
  /\ IF coverageUnion = <<>>
       THEN /\ desertLayer' = AfterFoldNoUnion(aoiLayer)
            /\ dpc' = "done"
            /\ foldIdx' = foldIdx
       ELSE /\ desertLayer' = desertLayer
            /\ dpc' = "diff"
            /\ foldIdx' = 1
  /\ desertFeatures' = <<>>
  /\ UNCHANGED <<coverageMode, coverageUnion, merged, unionFailures, prevDesert, orchVars, statsVars, markerVars>>

\* One iteration of: for (const aoiFeature of aoiLayer.features) { try ... }
DiffFeature(acc, aoiFeature, unionFeature) ==
  IF DifferenceThrows(aoiFeature, unionFeature) THEN acc
  ELSE acc \o Difference(aoiFeature, unionFeature)

DiffStep ==
  /\ dpc = "diff"
  /\ foldIdx <= Len(aoiLayer.features)
  /\ desertFeatures' = DiffFeature(desertFeatures, aoiLayer.features[foldIdx], coverageUnion[1])
  /\ foldIdx' = foldIdx + 1
  /\ UNCHANGED <<coverageMode, dpc, coverageUnion, merged, unionFailures, prevDesert,
                 desertLayer, orchVars, statsVars, markerVars>>

\* return desertFeatures.length > 0 ? { type: 'FeatureCollection', features } : null
DesertResultEmptyCollection(features) == [present |-> TRUE, features |-> features]

DesertResult(features) ==
  IF Len(features) > 0 THEN [present |-> TRUE, features |-> features] ELSE NullLayer

DiffEnd ==
  /\ dpc = "diff"
  /\ foldIdx > Len(aoiLayer.features)
  /\ desertLayer' = DesertResult(desertFeatures)
  /\ dpc' = "done"
  /\ UNCHANGED <<coverageMode, foldIdx, coverageUnion, merged, unionFailures, prevDesert,
                 desertFeatures, orchVars, statsVars, markerVars>>

DesertInit ==
  /\ OrchIdle
  /\ aoiLayer \in AoiLayers
  /\ coverageMode \in {"buffers", "h3"}
  /\ \E active \in CoverageLayers, inactive \in InactiveLayers :
        /\ isochronesLayer = IF coverageMode = "buffers" THEN active ELSE inactive
        /\ h3AccessibilityLayer = IF coverageMode = "buffers" THEN inactive ELSE active
  /\ dpc = "start" /\ foldIdx = 0
  /\ coverageUnion = <<>>
  /\ merged = {}
  /\ unionFailures = {}
  /\ prevDesert = <<>>
  /\ desertFeatures = <<>>
  /\ desertLayer = NullLayer
  /\ StatsIdle
  /\ MarkersIdle

\* useMemo(..., [aoiLayer, isochronesLayer, h3AccessibilityLayer, coverageMode]):
\* a render after the layer that is not displayed was replaced runs the
\* callback again; prevDesert remembers the value the memo held.
ChangeInactiveLayer ==
  /\ dpc = "done"
  /\ prevDesert = <<>>
  /\ \E other \in InactiveLayers :
        IF coverageMode = "buffers"
          THEN /\ other # h3AccessibilityLayer
               /\ h3AccessibilityLayer' = other
               /\ isochronesLayer' = isochronesLayer
          ELSE /\ other # isochronesLayer
               /\ isochronesLayer' = other
               /\ h3AccessibilityLayer' = h3AccessibilityLayer
  /\ prevDesert' = <<desertLayer>>
  /\ dpc' = "start"
  /\ foldIdx' = 0
  /\ UNCHANGED <<coverageMode, coverageUnion, merged, unionFailures, desertFeatures,
                 desertLayer>>
  /\ UNCHANGED <<facilitiesLayer, h3PopulationLayer, aoiLayer, origIsochronesLayer,
                 origH3AccessibilityLayer, minConfidence, maxDistance, elasticity,
                 baseCoverageParams, isRecomputing, searches, nextSearch, instances,
                 current, nextInst, lastReply, statsVars, markerVars>>

DesertNext ==
  DesertStart \/ FoldStep \/ FoldEnd \/ DiffStep \/ DiffEnd \/ ChangeInactiveLayer

SpecDesert == DesertInit /\ [][DesertNext]_vars

\* the useMemo callback runs to its return
FairSpecDesert == SpecDesert /\ WF_vars(DesertNext)

\* ============================================================================
\* coveragePopulationStats: population by accessibility step.
\* In SpecStats h3PopulationLayer, h3AccessibilityLayer and aoi hold their
\* content.  A population is an integer.  An accessibility is held in
\* thousandths (ACC_ONE is the accessibility 1), and every value of the model
\* stands for the double nearest to it: the values are chosen so that the
\* double arithmetic of the callback gives the decimal result (0.57 is no such
\* value: 0.57 + 0.08 evaluates below 0.65, and 0.57 is left out).  A quotient
\* is held as the pair [num, den].  Coordinates are even integers, so that the
\* midpoint of a bounding box is an integer, and no cell centre lies on an
\* edge of a ring.
\* ============================================================================
MaxPopCells == 2
MaxAccCells == 2
MaxScopeFeatures == 2

ACC_ONE == 1000
TOLERANCE_CUTOFF == 550
TOLERANCE == 80
NUM_STEPS == 11

\* a property of a feature: missing, or a number
Undefined == [kind |-> "undefined", v |-> 0]
Val(n) == [kind |-> "number", v |-> n]

\* Number(x): a missing property converts to NaN
NaN == [nan |-> TRUE, v |-> 0]
Number(raw) == IF raw.kind = "number" THEN [nan |-> FALSE, v |-> raw.v] ELSE NaN

\* Number.isFinite(x)
IsFinite(x) == ~x.nan

\* x || 0
OrZero(x) == IF x.nan \/ x.v = 0 THEN 0 ELSE x.v

Ratio(n, d) == [num |-> n, den |-> d]
Zero == Ratio(0, 1)

\* ------------------------------------------------------------------ geometry
OuterA == << <<0, 0>>, <<16, 0>>, <<16, 16>>, <<0, 16>>, <<0, 0>> >>
HoleA  == << <<4, 4>>, <<12, 4>>, <<12, 12>>, <<4, 12>>, <<4, 4>> >>
OuterB == << <<20, 0>>, <<28, 0>>, <<28, 8>>, <<20, 8>>, <<20, 0>> >>

\* A cell geometry lists its positions; a scoping geometry lists its polygons,
\* each a sequence of rings (a Polygon has one, a MultiPolygon any number).
NoCellGeometry == [type |-> "none", coordinates |-> <<>>]
PointAt(p) == [type |-> "Point", coordinates |-> <<p>>]
HexAround(p) ==
  [type |-> "Polygon",
   coordinates |-> << <<p[1] - 2, p[2]>>, <<p[1], p[2] - 2>>, <<p[1] + 2, p[2]>>,
                      <<p[1], p[2] + 2>>, <<p[1] - 2, p[2]>> >>]

NoScopeGeometry == [type |-> "none", polygons |-> <<>>]
ScopeGeometries ==
  {NoScopeGeometry,
   [type |-> "LineString", polygons |-> <<>>],
   [type |-> "Polygon", polygons |-> << <<OuterA>> >>],
   [type |-> "Polygon", polygons |-> << <<OuterA, HoleA>> >>],
   [type |-> "Polygon", polygons |-> << <<>> >>],
   [type |-> "MultiPolygon", polygons |-> << <<OuterA, HoleA>>, <<OuterB>> >>]}

\* ------------------------------------------------------------------- inputs
\* h3_cell and id are <<>> when missing, else <<key>>
PopCell(h3_cell, id, population, geometry) ==
  [h3_cell |-> h3_cell, id |-> id, population |-> population, geometry |-> geometry]

PopulationCells ==
  {PopCell(<<"a">>, <<>>, Val(100), PointAt(<<2, 2>>)),
   PopCell(<<"b">>, <<>>, Val(300), PointAt(<<8, 8>>)),
   PopCell(<<>>, <<"a">>, Val(300), HexAround(<<24, 4>>)),
   PopCell(<<>>, <<>>, Val(100), PointAt(<<40, 40>>)),
   PopCell(<<"b">>, <<>>, Val(100), NoCellGeometry),
   PopCell(<<"a">>, <<>>, Undefined, PointAt(<<2, 2>>)),
   PopCell(<<"b">>, <<>>, Val(-100), PointAt(<<24, 4>>)),
   PopCell(<<"">>, <<"a">>, Val(100), HexAround(<<8, 8>>))}

AccCell(h3_cell, id, accessibility) ==
  [h3_cell |-> h3_cell, id |-> id, accessibility |-> accessibility]

AccessibilityCells ==
  {AccCell(<<"a">>, <<>>, Val(200)),
   AccCell(<<"a">>, <<>>, Val(560)),
   AccCell(<<"b">>, <<>>, Val(540)),
   AccCell(<<"b">>, <<>>, Val(1500)),
   AccCell(<<"b">>, <<>>, Val(-200)),
   AccCell(<<>>, <<"a">>, Val(40)),
   AccCell(<<"a">>, <<>>, Undefined),
   AccCell(<<>>, <<>>, Val(1000))}

PopulationLayers ==
  {NullLayer} \cup
  {[present |-> TRUE, features |-> fs] : fs \in SeqsUpTo(PopulationCells, MaxPopCells)}

AccessibilityLayers ==
  {NullLayer} \cup
  {[present |-> TRUE, features |-> fs] : fs \in SeqsUpTo(AccessibilityCells, MaxAccCells)}

ScopeLayers ==
  {NullLayer} \cup
  {[present |-> TRUE, features |-> fs] : fs \in SeqsUpTo(ScopeGeometries, MaxScopeFeatures)}

\* layer?.features || []
FeaturesOf(layer) == IF layer.present THEN layer.features ELSE <<>>

\* ------------------------------------------------------------ the cell join
\* const key = feature?.properties?.h3_cell ?? feature?.id; null if missing
GetCellKey(feature) == IF feature.h3_cell # <<>> THEN feature.h3_cell ELSE feature.id

\* a cell key used as a condition: null and the empty string are falsy
Truthy(cell) == cell # <<>> /\ cell[1] # ""

\* Math.max(0, Math.min(1, accessibility))
Clamp(v) == Max(0, Min(ACC_ONE, v))

\* accessibilityByCell after the first n features; a later entry overwrites
RECURSIVE AccessibilityByCell(_, _)
AccessibilityByCell(features, n) ==
  IF n = 0 THEN [k \in {} |-> 0]
  ELSE LET byCell == AccessibilityByCell(features, n - 1)
           cell == GetCellKey(features[n])
           accessibility == Number(features[n].accessibility)
       IN IF ~Truthy(cell) THEN byCell
          ELSE IF ~IsFinite(accessibility) THEN byCell
          ELSE [k \in DOMAIN byCell \cup {cell[1]} |->
                  IF k = cell[1] THEN Clamp(accessibility.v) ELSE byCell[k]]

\* cell && accessibilityByCell.has(cell) ? accessibilityByCell.get(cell) : 0
LookupDefaultOne(byCell, cell) ==
  IF Truthy(cell) /\ cell[1] \in DOMAIN byCell THEN byCell[cell[1]] ELSE ACC_ONE

Lookup(byCell, cell) ==
  IF Truthy(cell) /\ cell[1] \in DOMAIN byCell THEN byCell[cell[1]] ELSE 0

\* ------------------------------------------------------------------ scoping
\* lon < ((xj - xi) * (lat - yi)) / (yj - yi) + xi, for yj # yi, without dividing
LeftOfEdge(lon, lat, pi, pj) ==
  IF pj[2] > pi[2]
    THEN (lon - pi[1]) * (pj[2] - pi[2]) < (pj[1] - pi[1]) * (lat - pi[2])
    ELSE (lon - pi[1]) * (pj[2] - pi[2]) > (pj[1] - pi[1]) * (lat - pi[2])

\* the edge from ring[j] to ring[i] crosses the ray from the point
Intersects(lon, lat, pi, pj) ==
  /\ (pi[2] > lat) # (pj[2] > lat)
  /\ LeftOfEdge(lon, lat, pi, pj)

\* pointInRing: a ring of fewer than 4 positions holds nothing; inside flips
\* once per crossing edge (j runs one position behind i, starting at the last)
PointInRing(lon, lat, ring) ==
  IF Len(ring) < 4 THEN FALSE
  ELSE LET crossing ==
             {i \in 1..Len(ring) :
                Intersects(lon, lat, ring[i], ring[IF i = 1 THEN Len(ring) ELSE i - 1])}
       IN Cardinality(crossing) % 2 = 1

\* pointInPolygonWithHoles
PointInOuterRingOnly(lon, lat, polygonRings) ==
  Len(polygonRings) > 0 /\ PointInRing(lon, lat, polygonRings[1])

PointInPolygonWithHoles(lon, lat, polygonRings) ==
  IF Len(polygonRings) = 0 THEN FALSE
  ELSE IF ~PointInRing(lon, lat, polygonRings[1]) THEN FALSE
  ELSE \A i \in 2..Len(polygonRings) : ~PointInRing(lon, lat, polygonRings[i])

\* the smallest and largest of a non-empty set of integers
MinOf(S) == CHOOSE x \in S : \A y \in S : x <= y
MaxOf(S) == CHOOSE x \in S : \A y \in S : x >= y

\* getFeatureCenterLonLat: <<>> for null, else <<center>>; a Point is its
\* position, any other geometry the midpoint of its bounding box
GetFeatureCenterLonLat(geometry) ==
  IF geometry.type = "none" THEN <<>>
  ELSE IF geometry.type = "Point" THEN <<geometry.coordinates[1]>>
  ELSE IF Len(geometry.coordinates) = 0 THEN <<>>
  ELSE LET lons == {geometry.coordinates[k][1] : k \in 1..Len(geometry.coordinates)}
           lats == {geometry.coordinates[k][2] : k \in 1..Len(geometry.coordinates)}
       IN << <<(MinOf(lons) + MaxOf(lons)) \div 2, (MinOf(lats) + MaxOf(lats)) \div 2>> >>

\* aoiPolygons after the first n features of aoi
RECURSIVE AoiPolygons(_, _)
AoiPolygons(features, n) ==
  IF n = 0 THEN <<>>
  ELSE LET geometry == features[n]
           before == AoiPolygons(features, n - 1)
       IN IF geometry.type = "Polygon" THEN Append(before, geometry.polygons[1])
          ELSE IF geometry.type = "MultiPolygon" THEN before \o geometry.polygons
          ELSE before

\* the filter callback of scopedPopFeatures
InScope(feature, aoiPolygons) ==
  LET center == GetFeatureCenterLonLat(feature.geometry)
  IN /\ center # <<>>
     /\ \E p \in 1..Len(aoiPolygons) :
          PointInPolygonWithHoles(center[1][1], center[1][2], aoiPolygons[p])

\* popFeatures.filter(...), keeping the order
RECURSIVE Filter(_, _, _)
Filter(features, n, aoiPolygons) ==
  IF n = 0 THEN <<>>
  ELSE IF InScope(features[n], aoiPolygons)
    THEN Append(Filter(features, n - 1, aoiPolygons), features[n])
    ELSE Filter(features, n - 1, aoiPolygons)

\* isAoiFiltered ? popFeatures.filter(...) : popFeatures
ScopedOnlyWhenUnfiltered(popFeatures, aoiPolygons) ==
  IF Len(aoiPolygons) > 0 THEN popFeatures ELSE <<>>

ScopedPopFeatures(popFeatures, aoiPolygons) ==
  IF Len(aoiPolygons) > 0
    THEN Filter(popFeatures, Len(popFeatures), aoiPolygons)
    ELSE popFeatures

\* ---------------------------------------------------------------- the steps
\* (k / 10).toFixed(1) for k in 0..10
StepLabels == <<"0.0", "0.1", "0.2", "0.3", "0.4", "0.5", "0.6", "0.7", "0.8", "0.9", "1.0">>
ToFixed1(tenths) == StepLabels[tenths + 1]

\* const stepsAsc = Array.from({ length: 11 }, (_, idx) => (idx / 10).toFixed(1))
StepsAsc == [idx \in 1..NUM_STEPS |-> ToFixed1(idx - 1)]
StepSet == {StepsAsc[idx] : idx \in 1..NUM_STEPS}

\* Math.round(x) for x in thousandths: the nearest integer, a half goes up
MathRound(x) == (x + ACC_ONE \div 2) \div ACC_ONE

\* getToleratedAccessibilityForStep
\* the tolerance added twice
DoubleTolerance(value) ==
  IF ~IsFinite(value) THEN 0
  ELSE IF Clamp(value.v) >= TOLERANCE_CUTOFF
    THEN Min(ACC_ONE, Clamp(value.v) + 2 * TOLERANCE)
  ELSE Clamp(value.v)

NoTolerance(value) == IF ~IsFinite(value) THEN 0 ELSE Clamp(value.v)

GetToleratedAccessibilityForStep(value) ==
  IF ~IsFinite(value) THEN 0
  ELSE IF Clamp(value.v) >= TOLERANCE_CUTOFF THEN Min(ACC_ONE, Clamp(value.v) + TOLERANCE)
  ELSE Clamp(value.v)

\* (Math.round(toleratedForStep * 10) / 10).toFixed(1)
StepOf(accessibility) ==
  ToFixed1(MathRound(GetToleratedAccessibilityForStep(accessibility) * 10))

\* ---------------------------------------------------------- the aggregation
\* if (accessibility > 0) coveredPopulation += population
CoveredAlways(accessibility) == TRUE

\* covered only from the first step above "0.0" on
CoveredFromFirstStep(accessibility) == 20 * accessibility >= ACC_ONE

Covered(accessibility) == accessibility > 0

\* the accumulators after the first n scoped features
RECURSIVE Aggregate(_, _, _)
Aggregate(features, n, byCell) ==
  IF n = 0
    THEN [totalPopulation |-> 0, coveredPopulation |-> 0, weightedAccessibilitySum |-> 0,
          stepPopulation |-> [step \in StepSet |-> 0]]
    ELSE LET acc == Aggregate(features, n - 1, byCell)
             population == OrZero(Number(features[n].population))
             accessibility == Lookup(byCell, GetCellKey(features[n]))
             step == StepOf([nan |-> FALSE, v |-> accessibility])
         IN IF population <= 0 THEN acc
            ELSE [totalPopulation |-> acc.totalPopulation + population,
                  coveredPopulation |->
                    IF Covered(accessibility) THEN acc.coveredPopulation + population
                    ELSE acc.coveredPopulation,
                  weightedAccessibilitySum |->
                    acc.weightedAccessibilitySum + population * accessibility,
                  stepPopulation |->
                    [acc.stepPopulation EXCEPT ![step] = @ + population]]

\* totalPopulation > 0 ? weightedAccessibilitySum / totalPopulation : 0
WeightedAccessibility(acc) ==
  IF acc.totalPopulation > 0
    THEN Ratio(acc.weightedAccessibilitySum, acc.totalPopulation * ACC_ONE)
    ELSE Zero

\* one row: { step, population, percentage }
Row(step, acc) ==
  [step |-> step,
   population |-> acc.stepPopulation[step],
   percentage |-> IF acc.totalPopulation > 0
                    THEN Ratio(acc.stepPopulation[step] * 100, acc.totalPopulation)
                    ELSE Zero]

\* [...stepsAsc].reverse().map(...)
RowsWithoutZeroStep(acc) ==
  [idx \in 1..(NUM_STEPS - 1) |-> Row(StepsAsc[NUM_STEPS + 1 - idx], acc)]

RowsAscending(acc) == [idx \in 1..NUM_STEPS |-> Row(StepsAsc[idx], acc)]

Rows(acc) == [idx \in 1..NUM_STEPS |-> Row(StepsAsc[NUM_STEPS + 1 - idx], acc)]

\* the result for an absent or empty population layer
NoDataWithRows ==
  [hasData |-> FALSE, isAoiFiltered |-> FALSE, totalPopulation |-> 0,
   coveredPopulation |-> 0, weightedAccessibility |-> Zero,
   rows |-> Rows(Aggregate(<<>>, 0, [k \in {} |-> 0]))]

NoData ==
  [hasData |-> FALSE, isAoiFiltered |-> FALSE, totalPopulation |-> 0,
   coveredPopulation |-> 0, weightedAccessibility |-> Zero, rows |-> <<>>]

\* the useMemo callback of coveragePopulationStats
CoveragePopulationStats(populationLayer, accessibilityLayer, scope) ==
  LET popFeatures == FeaturesOf(populationLayer)
      accFeatures == FeaturesOf(accessibilityLayer)
      aoiPolygons == AoiPolygons(FeaturesOf(scope), Len(FeaturesOf(scope)))
  IN IF Len(popFeatures) = 0 THEN NoData
     ELSE LET byCell == AccessibilityByCell(accFeatures, Len(accFeatures))
              scoped == ScopedPopFeatures(popFeatures, aoiPolygons)
              acc == Aggregate(scoped, Len(scoped), byCell)
          IN [hasData |-> TRUE,
              isAoiFiltered |-> Len(aoiPolygons) > 0,
              totalPopulation |-> acc.totalPopulation,
              coveredPopulation |-> acc.coveredPopulation,
              weightedAccessibility |-> WeightedAccessibility(acc),
              rows |-> Rows(acc)]

\* the render runs the memo callback on the layers and the scope it holds
ComputeStats ==
  /\ statsPc = "stale"
  /\ coveragePopulationStats' =
       CoveragePopulationStats(h3PopulationLayer, h3AccessibilityLayer, aoi)
  /\ scopedPopFeatures' =
       IF Len(FeaturesOf(h3PopulationLayer)) = 0 THEN <<>>
       ELSE ScopedPopFeatures(FeaturesOf(h3PopulationLayer),
                              AoiPolygons(FeaturesOf(aoi), Len(FeaturesOf(aoi))))
  /\ statsPc' = "done"
  /\ UNCHANGED <<aoi, probe, probeStep, prevStats, orchVars, desertVars, markerVars>>

\* the orchestrator's state other than the layers the statistics read
StatsRest ==
  /\ facilitiesLayer = Null
  /\ origIsochronesLayer = Null
  /\ origH3AccessibilityLayer = Null
  /\ minConfidence = 1
  /\ maxDistance = DEFAULT_MAX_DISTANCE
  /\ elasticity = DEFAULT_ELASTICITY
  /\ baseCoverageParams = [maxDistance |-> DEFAULT_MAX_DISTANCE,
                           elasticity |-> DEFAULT_ELASTICITY]
  /\ isRecomputing = FALSE
  /\ searches = {}
  /\ nextSearch = 1
  /\ instances = [i \in InstanceIds |-> Unused]
  /\ current = 0
  /\ nextInst = 1
  /\ lastReply = NoReply
  /\ DesertIdle

StatsInit ==
  /\ StatsRest
  /\ MarkersIdle
  /\ isochronesLayer = Null
  /\ aoiLayer = Null
  /\ h3PopulationLayer \in PopulationLayers
  /\ h3AccessibilityLayer \in AccessibilityLayers
  /\ aoi \in ScopeLayers
  /\ statsPc = "stale"
  /\ coveragePopulationStats = NoData
  /\ scopedPopFeatures = <<>>
  /\ probe = Null
  /\ probeStep = ""
  /\ prevStats = <<>>

StatsNext == ComputeStats

SpecStats == StatsInit /\ [][StatsNext]_vars

\* ------------------------------------------------ the step of a single value
\* the accessibilities a cell can carry: every thousandth of [0, 1] whose
\* double arithmetic is the decimal one, values outside it, and NaN
UnfaithfulValues == {570}
ProbeValues ==
  {[nan |-> FALSE, v |-> v] : v \in ((0 - 2)..(ACC_ONE + 2)) \ UnfaithfulValues} \cup {NaN}

AssignStep ==
  /\ statsPc = "probe"
  /\ probeStep' = StepOf(probe)
  /\ statsPc' = "done"
  /\ UNCHANGED <<aoi, coveragePopulationStats, scopedPopFeatures, probe, prevStats, orchVars,
                 desertVars, markerVars>>

StepInit ==
  /\ StatsRest
  /\ MarkersIdle
  /\ isochronesLayer = Null
  /\ aoiLayer = Null
  /\ h3PopulationLayer = Null
  /\ h3AccessibilityLayer = Null
  /\ aoi = Null
  /\ statsPc = "probe"
  /\ coveragePopulationStats = Null
  /\ scopedPopFeatures = <<>>
  /\ probe \in ProbeValues
  /\ probeStep = ""
  /\ prevStats = <<>>

StepNext == AssignStep

SpecStep == StepInit /\ [][StepNext]_vars

\* ------------------------------- renders that leave the statistics' inputs
\* SpecStatsFrame: the statistics memo across renders caused by the coverage
\* mode toggle, by a new buffer layer, by a new search AOI layer and by the
\* user drawing or clearing the scoping polygon.  Layers have at most
\* MaxFrameCells features; the desert memo of these renders is SpecDesert's.
MaxFrameCells == 1

FramePopulationCells ==
  {PopCell(<<"a">>, <<>>, Val(100), PointAt(<<2, 2>>)),
   PopCell(<<"b">>, <<>>, Val(300), PointAt(<<8, 8>>)),
   PopCell(<<>>, <<"a">>, Val(300), HexAround(<<24, 4>>))}

FrameAccessibilityCells ==
  {AccCell(<<"a">>, <<>>, Val(560)),
   AccCell(<<"b">>, <<>>, Val(540)),
   AccCell(<<>>, <<"a">>, Val(40))}

FramePolygons == {g \in ScopeGeometries : g.type \in {"Polygon", "MultiPolygon"}}

LayersOf(cells) ==
  {NullLayer} \cup {[present |-> TRUE, features |-> fs] : fs \in SeqsUpTo(cells, MaxFrameCells)}

FrameBufferLayers == LayersOf({[type |-> "Polygon", polygons |-> << <<OuterA>> >>]})
FrameSearchAois == LayersOf(FramePolygons)

\* handleDrawCreated: a FeatureCollection of the one drawn feature
DrawnAois == {[present |-> TRUE, features |-> <<g>>] : g \in ScopeGeometries}

\* a callback that scopes by the search AOI when the user has drawn nothing
StatsInputsWithSearchAoi(populationLayer, accessibilityLayer, userAoi, searchAoi) ==
  <<populationLayer, accessibilityLayer, IF userAoi.present THEN userAoi ELSE searchAoi>>

\* what the callback reads, which is its dependency array
\* [h3PopulationLayer, h3AccessibilityLayer, aoi]
StatsInputs(populationLayer, accessibilityLayer, userAoi, searchAoi) ==
  <<populationLayer, accessibilityLayer, userAoi>>

\* useMemo: the cached value unless a dependency changed
StatsMemo(before, after, cached) ==
  IF after = before THEN cached
  ELSE CoveragePopulationStats(after[1], after[2], after[3])

\* a render with the given coverage mode, buffer layer, search AOI and drawn
\* aoi; prevStats remembers the statistics when the three inputs stayed
FrameRender(mode, buffers, searchAoi, userAoi) ==
  /\ statsPc = "done"
  /\ coverageMode' = mode
  /\ isochronesLayer' = buffers
  /\ aoiLayer' = searchAoi
  /\ aoi' = userAoi
  /\ coveragePopulationStats' =
       StatsMemo(StatsInputs(h3PopulationLayer, h3AccessibilityLayer, aoi, aoiLayer),
                 StatsInputs(h3PopulationLayer, h3AccessibilityLayer, userAoi, searchAoi),
                 coveragePopulationStats)
  /\ scopedPopFeatures' =
       IF Len(FeaturesOf(h3PopulationLayer)) = 0 THEN <<>>
       ELSE ScopedPopFeatures(FeaturesOf(h3PopulationLayer),
                              AoiPolygons(FeaturesOf(userAoi), Len(FeaturesOf(userAoi))))
  /\ prevStats' = IF userAoi = aoi THEN <<coveragePopulationStats>> ELSE <<>>
  /\ UNCHANGED <<facilitiesLayer, h3AccessibilityLayer, h3PopulationLayer,
                 origIsochronesLayer, origH3AccessibilityLayer, minConfidence, maxDistance,
                 elasticity, baseCoverageParams, isRecomputing, searches, nextSearch,
                 instances, current, nextInst, lastReply,
                 dpc, foldIdx, coverageUnion, merged, unionFailures, prevDesert,
                 desertFeatures, desertLayer,
                 statsPc, probe, probeStep, markerVars>>

\* onClick={() => setCoverageMode(coverageMode === 'buffers' ? 'h3' : 'buffers')}
ToggleCoverageMode ==
  FrameRender(IF coverageMode = "buffers" THEN "h3" ELSE "buffers",
              isochronesLayer, aoiLayer, aoi)

\* setIsochronesLayer with another layer
ChangeBufferLayer ==
  \E layer \in FrameBufferLayers :
    layer # isochronesLayer /\ FrameRender(coverageMode, layer, aoiLayer, aoi)

\* setAoiLayer with another layer
ChangeSearchAoi ==
  \E layer \in FrameSearchAois :
    layer # aoiLayer /\ FrameRender(coverageMode, isochronesLayer, layer, aoi)

\* handleDrawCreated: setAoi(data)
DrawCreated ==
  \E data \in DrawnAois :
    data # aoi /\ FrameRender(coverageMode, isochronesLayer, aoiLayer, data)

\* clearAoi: setAoi(null)
ClearAoi ==
  aoi # NullLayer /\ FrameRender(coverageMode, isochronesLayer, aoiLayer, NullLayer)

FrameInit ==
  /\ StatsRest
  /\ MarkersIdle
  /\ isochronesLayer = NullLayer
  /\ aoiLayer = NullLayer
  /\ h3PopulationLayer \in LayersOf(FramePopulationCells)
  /\ h3AccessibilityLayer \in LayersOf(FrameAccessibilityCells)
  /\ aoi = NullLayer
  /\ statsPc = "stale"
  /\ coveragePopulationStats = NoData
  /\ scopedPopFeatures = <<>>
  /\ probe = Null
  /\ probeStep = ""
  /\ prevStats = <<>>

FrameNext ==
  \/ ComputeStats
  \/ ToggleCoverageMode
  \/ ChangeBufferLayer
  \/ ChangeSearchAoi
  \/ DrawCreated
  \/ ClearAoi

SpecStatsFrame == FrameInit /\ [][FrameNext]_vars

\* ============================================================================
\* The quantile that scales the population markers (SpecQuantile)
\* ============================================================================
\* q is counted in tenths: the caller passes 0.9. Populations are integers, so
\* the value returned is the exact quotient [num, den]; the code's doubles are
\* within 3e-14 of it on every sample of the bounds below, and Math.floor(pos)
\* is the exact floor there.
MaxSample == 5
Q_ONE == 10
P90 == 9

\* the positive populations a layer can carry
SampleValues == {10, 20, 30, 40, 90}
Samples == SeqsUpTo(SampleValues, MaxSample)

\* [...values].sort((a, b) => a - b): x put in its place in an ascending list
RECURSIVE Insert(_, _)
Insert(sorted, x) ==
  IF sorted = <<>> THEN <<x>>
  ELSE IF x < Head(sorted) THEN <<x>> \o sorted
  ELSE <<Head(sorted)>> \o Insert(Tail(sorted), x)

RECURSIVE Sort(_)
Sort(values) ==
  IF values = <<>> THEN <<>> ELSE Insert(Sort(Tail(values)), Head(values))

\* quantile without the interpolation: the order statistic below the position
QuantileLowerRank(values, qn) ==
  IF Len(values) = 0 THEN Zero
  ELSE Ratio(Sort(values)[((Len(values) - 1) * qn) \div Q_ONE + 1], 1)

\* quantile(values, q) for q = qn / 10; sorted[] is 0-based in the code
Quantile(values, qn) ==
  IF Len(values) = 0 THEN Zero
  ELSE LET sorted == Sort(values)
           pos == (Len(sorted) - 1) * qn           \* in tenths
           base == pos \div Q_ONE
           rest == pos % Q_ONE                      \* in tenths
       IN IF base + 1 < Len(sorted)
            THEN Ratio(sorted[base + 1] * Q_ONE + rest * (sorted[base + 2] - sorted[base + 1]),
                       Q_ONE)
            ELSE Ratio(sorted[base + 1], 1)

\* the useMemo callback of populationBallMarkers, up to p90
ComputeMarkers ==
  /\ markersPc = "stale"
  /\ p90' = Quantile(populations, quantileQ)
  /\ markersPc' = "done"
  /\ UNCHANGED <<populations, quantileQ, orchVars, desertVars, statsVars>>

QuantileInit ==
  /\ StatsRest
  /\ StatsIdle
  /\ isochronesLayer = Null
  /\ aoiLayer = Null
  /\ h3PopulationLayer = Null
  /\ h3AccessibilityLayer = Null
  /\ populations \in Samples
  /\ quantileQ \in 0..Q_ONE
  /\ p90 = Zero
  /\ markersPc = "stale"

QuantileNext == ComputeMarkers

SpecQuantile == QuantileInit /\ [][QuantileNext]_vars

\* ============================================================================
\* Properties of the recompute orchestrator (checked under Spec)
\* ============================================================================
\* The step handles the reply to instance i's request.
ReplyHandled(i) == instances[i].phase = "inflight" /\ instances'[i].phase # "inflight"

\* The step is the timer callback of instance i: its request is issued.
RequestIssued(i) == instances[i].phase = "timer" /\ instances'[i].phase = "inflight"

CoverageLayersUnchanged ==
  /\ isochronesLayer' = isochronesLayer
  /\ h3AccessibilityLayer' = h3AccessibilityLayer

Live(i) == instances[i].phase \in {"timer", "inflight"} /\ ~instances[i].cancelled

\* C1: a recompute reply changes the active buffer/hex layers only if no
\* dependency change superseded its request between the arming of its timer
\* and the reply's arrival, and then it is the latest request that was armed;
\* the reply to a superseded request changes neither layer.
C1_StaleResponsesDiscarded ==
  [][\A i \in InstanceIds :
        ReplyHandled(i) =>
          /\ ~CoverageLayersUnchanged => (~instances[i].stale /\ i = nextInst - 1)
          /\ instances[i].stale => CoverageLayersUnchanged]_vars

\* A successful reply has just been handled while a newer debounce timer is
\* pending: the reply belonged to a superseded request.
C1_Witness ==
  /\ lastReply.kind = "ok"
  /\ lastReply.isochrones
  /\ current # 0
  /\ instances[current].phase = "timer"
  /\ isochronesLayer.src # "recompute"

\* C2: whenever nothing is pending any more (no search in flight, no live
\* timer, no live request), the recompute-in-progress flag is false -- every
\* triggered request, also a cancelled one, has had its flag cleared.
C2_FlagClearedWhenIdle ==
  (searches = {} /\ \A i \in InstanceIds : ~Live(i)) => ~isRecomputing

\* C3: a failed recompute request (transport error, unparsable body, error
\* reply) leaves the active buffer and hex layers as they were.
C3_FailureKeepsLayers ==
  [][lastReply'.kind \in FailureKinds /\ (\E i \in InstanceIds : ReplyHandled(i))
       => CoverageLayersUnchanged]_vars

\* C4: whenever the orchestrator has run on the restore path (facilities
\* loaded, minConfidence = 1, configuration at the baseline), no request is
\* pending, both active coverage layers are the originals of the search and
\* isRecomputing is false.
C4_RestorePath ==
  (/\ facilitiesLayer # Null
   /\ minConfidence = 1
   /\ IsAtBaseParams(maxDistance, elasticity, baseCoverageParams))
  => /\ \A i \in InstanceIds : ~Live(i)
     /\ isochronesLayer = origIsochronesLayer
     /\ h3AccessibilityLayer = origH3AccessibilityLayer
     /\ ~isRecomputing

\* C5: a request is issued only by the timer armed at the last dependency
\* change, only once its full delay has run, it is that instance's first
\* request and it carries the current minConfidence, maxDistance and
\* elasticity; at no time are two debounce timers pending, so a burst of
\* changes issues at most one request.
C5_DebounceCoalesces ==
  /\ [][\A i \in InstanceIds :
          RequestIssued(i) =>
            /\ instances[i].remaining = 0
            /\ ~instances[i].stale
            /\ i = current
            /\ instances[i].issued = 0
            /\ instances[i].minStars = minConfidence
            /\ instances[i].maxDistance = maxDistance
            /\ instances[i].elasticity = elasticity]_vars
  /\ [](Cardinality({i \in InstanceIds : instances[i].phase = "timer"}) <= 1)

\* A burst of two changes: the first timer was cleared before it fired, the
\* second one has fired and its request is in flight.
C5_Witness ==
  \E i, j \in InstanceIds :
    /\ i < j
    /\ instances[i].phase = "cleared"
    /\ instances[j].phase = "inflight"
    /\ ~instances[j].stale

\* C6: the successful reply to a request that was not superseded replaces
\* both active layers: each becomes the reply's layer, or null when the reply
\* does not contain it.
C6_SuccessReplacesLayers ==
  [][\A i \in InstanceIds :
        (ReplyHandled(i) /\ ~instances[i].stale /\ lastReply'.kind = "ok") =>
          /\ isochronesLayer' =
               IF lastReply'.isochrones THEN RecomputeLayer(i) ELSE Null
          /\ h3AccessibilityLayer' =
               IF lastReply'.h3_accessibility THEN RecomputeLayer(i) ELSE Null]_vars

\* A reply without isochrones was applied: the buffer layer is gone although
\* the search had delivered one, the hex layer is the reply's.
C6_Witness ==
  /\ lastReply.kind = "ok"
  /\ ~lastReply.isochrones
  /\ lastReply.h3_accessibility
  /\ h3AccessibilityLayer.src = "recompute"
  /\ isochronesLayer = Null
  /\ origIsochronesLayer # Null

\* C7: an effect instance sends at most one request, and a pending timer
\* always belongs to an instance that has sent none: a failure re-arms nothing.
C7_NoAutomaticRetry ==
  \A i \in InstanceIds :
    /\ instances[i].issued <= 1
    /\ instances[i].phase = "timer" => instances[i].issued = 0

\* A request has just failed with the parameters still off the restore path,
\* and nothing is pending.
C7_Witness ==
  /\ lastReply.kind \in {"transport_error", "unparsable"}
  /\ facilitiesLayer # Null
  /\ minConfidence # 1
  /\ ~isRecomputing
  /\ \A i \in InstanceIds : instances[i].phase \notin {"timer", "inflight"}

\* C8: no step of a recompute request (issuing it, handling its reply,
\* whatever the outcome) changes h3PopulationLayer or aoiLayer.
C8_RecomputeKeepsPopulationAndAoi ==
  [][(\E i \in InstanceIds : RequestIssued(i) \/ ReplyHandled(i)) =>
        /\ h3PopulationLayer' = h3PopulationLayer
        /\ aoiLayer' = aoiLayer]_vars

\* A recompute reply has been applied on top of a search's layers.
C8_Witness ==
  /\ lastReply.kind = "ok"
  /\ isochronesLayer.src = "recompute"
  /\ h3PopulationLayer.src = "search"
  /\ aoiLayer.src = "search"

\* ============================================================================
\* Properties of desertLayer (checked under SpecDesert / FairSpecDesert)
\* ============================================================================
NoUsableCoverage(layer) ==
  \/ ~layer.present
  \/ \A k \in 1..Len(layer.features) : ~layer.features[k].hasGeometry

\* C9: when the active coverage layer is absent, has no features or has no
\* feature with a geometry, the desert layer is the AOI layer itself.
C9_NoCoverageDesertIsAoi ==
  (dpc = "done" /\ NoUsableCoverage(CoverageData)) => desertLayer = aoiLayer

\* The fold ran over features that all lack a geometry.
C9_Witness ==
  /\ dpc = "done"
  /\ aoiLayer.present /\ Len(aoiLayer.features) > 0
  /\ CoverageData.present /\ Len(CoverageData.features) > 1
  /\ NoUsableCoverage(CoverageData)
  /\ desertLayer = aoiLayer

\* The fold is at a feature whose union with the accumulator throws.
UnionFailsHere ==
  /\ dpc = "fold"
  /\ foldIdx <= Len(CoverageData.features)
  /\ coverageUnion # <<>>
  /\ CoverageData.features[foldIdx].hasGeometry
  /\ UnionThrows(coverageUnion[1], CoverageData.features[foldIdx])

\* C10: a failing pairwise union leaves the accumulator as it was and the
\* fold goes on with the next feature; the union always covers the features
\* folded into it (the seed and every feature whose union succeeded); and the
\* computation reaches its return.
C10_UnionFailureSkips ==
  /\ [][UnionFailsHere =>
          /\ coverageUnion' = coverageUnion
          /\ dpc' = "fold"
          /\ foldIdx' = foldIdx + 1]_vars
  /\ [](coverageUnion # <<>> =>
          \A k \in merged : CoverageData.features[k].cells \subseteq coverageUnion[1].cells)
  /\ <>(dpc = "done")

\* A union failed in the middle of the fold, the features before and after
\* it were folded in, and a desert came out.
C10_Witness ==
  /\ dpc = "done"
  /\ Len(CoverageData.features) = 3
  /\ CoverageData.features[2].bad
  /\ merged = {1, 3}
  /\ coverageUnion # <<>>
  /\ coverageUnion[1].cells # CoverageData.features[1].cells
  /\ desertLayer.present


\* The indices of the AOI features whose subtraction of coverageUnion succeeds
\* and leaves something.
Survivors ==
  {k \in 1..Len(aoiLayer.features) :
     /\ ~DifferenceThrows(aoiLayer.features[k], coverageUnion[1])
     /\ aoiLayer.features[k].cells \ coverageUnion[1].cells # {}}

\* the j-th smallest element of a set of indices
NthOf(S, j) == CHOOSE k \in S : Cardinality({m \in S : m < k}) = j - 1

\* The memo callback returned from the difference step.
DifferenceStepDone == dpc = "done" /\ aoiLayer.present /\ coverageUnion # <<>>

\* C11: when the difference step has run, the desert layer holds, in AOI order,
\* exactly the non-empty remainders of the AOI features whose subtraction of the
\* coverage union succeeded; a feature whose subtraction throws is dropped and
\* the computation still returns; with no survivor the result is null.
C11_DesertIsSurvivingDifferences ==
  DifferenceStepDone =>
    IF Survivors = {}
      THEN desertLayer = NullLayer
      ELSE /\ desertLayer.present
           /\ Len(desertLayer.features) = Cardinality(Survivors)
           /\ \A j \in 1..Len(desertLayer.features) :
                 /\ desertLayer.features[j].hasGeometry
                 /\ desertLayer.features[j].cells =
                      aoiLayer.features[NthOf(Survivors, j)].cells \ coverageUnion[1].cells

\* two AOI features, the first one's subtraction throws, the second survives
C11_Witness ==
  /\ DifferenceStepDone
  /\ Len(aoiLayer.features) = 2
  /\ ~coverageUnion[1].bad
  /\ aoiLayer.features[1].bad
  /\ Survivors = {2}
  /\ Len(desertLayer.features) = 1

\* the region covered by the features of a layer
FullUnion(layer) ==
  UNION {layer.features[k].cells : k \in {m \in 1..Len(layer.features) : layer.features[m].hasGeometry}}

\* C12: when every union step succeeded and the union of the coverage features
\* contains every AOI feature, no feature survives in the desert layer.
C12_FullCoverageNoDesert ==
  (/\ dpc = "done"
   /\ aoiLayer.present
   /\ CoverageData.present
   /\ unionFailures = {}
   /\ \A k \in 1..Len(aoiLayer.features) :
         aoiLayer.features[k].cells \subseteq FullUnion(CoverageData))
  => (desertLayer = NullLayer \/ Len(desertLayer.features) = 0)

\* two coverage features that only together contain the two AOI features
C12_Witness ==
  /\ DifferenceStepDone
  /\ unionFailures = {}
  /\ Len(aoiLayer.features) = 2
  /\ \A k \in 1..2 : ~aoiLayer.features[k].bad
  /\ Cardinality(merged) >= 2
  /\ \A k \in merged : CoverageData.features[k].cells # Atoms
  /\ FullUnion(CoverageData) = Atoms
  /\ desertLayer = NullLayer

\* C13: the desert layer depends on the AOI layer, the coverage mode and the
\* layer that mode selects (buffers: isochronesLayer, h3: h3AccessibilityLayer);
\* after only the other layer was replaced, the recomputed desert layer equals
\* the one computed before.
C13_InactiveLayerIrrelevant ==
  (dpc = "done" /\ prevDesert # <<>>) => desertLayer = prevDesert[1]

\* recomputed after the inactive layer changed, with a desert that is neither
\* the AOI nor null
C13_Witness ==
  /\ dpc = "done"
  /\ prevDesert # <<>>
  /\ coverageUnion # <<>>
  /\ desertLayer.present
  /\ desertLayer # aoiLayer

\* ============================================================================
\* Properties of coveragePopulationStats (checked under SpecStats and SpecStep)
\* ============================================================================
StatsDone == statsPc = "done"

\* the row of a step in the computed statistics
RowOf(step) ==
  coveragePopulationStats.rows[
    CHOOSE idx \in 1..Len(coveragePopulationStats.rows) :
      coveragePopulationStats.rows[idx].step = step]

\* a quotient [num, den] equals the integer n
RatioIs(r, n) == r.num = n * r.den

\* C14: an absent or empty population layer gives the "no data" statistics
\* (hasData false, the three totals 0, no rows), whatever the accessibility
\* layer and the scoping polygons are.
C14_NoPopulationNoData ==
  (StatsDone /\ Len(FeaturesOf(h3PopulationLayer)) = 0) =>
     /\ coveragePopulationStats.hasData = FALSE
     /\ coveragePopulationStats.totalPopulation = 0
     /\ coveragePopulationStats.coveredPopulation = 0
     /\ RatioIs(coveragePopulationStats.weightedAccessibility, 0)
     /\ coveragePopulationStats.rows = <<>>

\* an empty population layer with accessibility cells and a scoping polygon
C14_Witness ==
  /\ StatsDone
  /\ h3PopulationLayer.present
  /\ Len(h3PopulationLayer.features) = 0
  /\ Len(FeaturesOf(h3AccessibilityLayer)) > 0
  /\ \E k \in 1..Len(FeaturesOf(aoi)) : aoi.features[k].type = "Polygon"
  /\ coveragePopulationStats.hasData = FALSE

\* C15: with a positive total population and an absent or empty accessibility
\* layer, coveredPopulation and weightedAccessibility are 0, step "0.0" holds
\* the whole total (100%) and every other step holds 0.
C15_NoAccessibilityAllInZeroStep ==
  (/\ StatsDone
   /\ Len(FeaturesOf(h3AccessibilityLayer)) = 0
   /\ coveragePopulationStats.totalPopulation > 0)
  => /\ coveragePopulationStats.coveredPopulation = 0
     /\ RatioIs(coveragePopulationStats.weightedAccessibility, 0)
     /\ \A idx \in 1..Len(coveragePopulationStats.rows) :
          LET row == coveragePopulationStats.rows[idx]
          IN IF row.step = "0.0"
               THEN /\ row.population = coveragePopulationStats.totalPopulation
                    /\ RatioIs(row.percentage, 100)
               ELSE /\ row.population = 0
                    /\ RatioIs(row.percentage, 0)

\* two counted cells and no accessibility layer
C15_Witness ==
  /\ StatsDone
  /\ ~h3AccessibilityLayer.present
  /\ coveragePopulationStats.totalPopulation = 400
  /\ RowOf("0.0").population = 400

\* the value is an accessibility of [0, 1]
ProbeInUnitInterval == IsFinite(probe) /\ probe.v >= 0 /\ probe.v <= 1000

\* the tenth nearest to ten times t thousandths, a half going up
NearestTenth(t) ==
  CHOOSE k \in 0..10 : 1000 * k - 500 <= 10 * t /\ 10 * t < 1000 * k + 500

C17_JoinDefaultsToZero ==
  (/\ StatsDone
   /\ Len(FeaturesOf(h3PopulationLayer)) = 2
   /\ h3PopulationLayer.features[1].population = Val(100)
   /\ h3PopulationLayer.features[2].population = Val(300)
   /\ GetCellKey(h3PopulationLayer.features[1]) = <<"a">>
   /\ GetCellKey(h3PopulationLayer.features[2]) # <<"a">>
   /\ FeaturesOf(h3AccessibilityLayer) = <<AccCell(<<"a">>, <<>>, Val(200))>>
   /\ ~coveragePopulationStats.isAoiFiltered)
  => /\ coveragePopulationStats.totalPopulation = 400
     /\ coveragePopulationStats.coveredPopulation = 100
     /\ coveragePopulationStats.weightedAccessibility.num * 100 =
          5 * coveragePopulationStats.weightedAccessibility.den
     /\ RowOf("0.2").population = 100
     /\ RatioIs(RowOf("0.2").percentage, 25)
     /\ RowOf("0.0").population = 300
     /\ RatioIs(RowOf("0.0").percentage, 75)

\* the two cells of the example, the second under the key "b"
C17_Witness ==
  /\ StatsDone
  /\ Len(FeaturesOf(h3PopulationLayer)) = 2
  /\ h3PopulationLayer.features[1].population = Val(100)
  /\ h3PopulationLayer.features[2].population = Val(300)
  /\ GetCellKey(h3PopulationLayer.features[1]) = <<"a">>
  /\ GetCellKey(h3PopulationLayer.features[2]) = <<"b">>
  /\ FeaturesOf(h3AccessibilityLayer) = <<AccCell(<<"a">>, <<>>, Val(200))>>
  /\ aoi = NullLayer
  /\ coveragePopulationStats.coveredPopulation = 100

\* the statistics of the same layers without any scope
Unscoped == CoveragePopulationStats(h3PopulationLayer, h3AccessibilityLayer, NullLayer)

\* C18: the total population, the covered population and the population of
\* each step computed with the scoping polygons never exceed the values
\* computed from the same layers without a scope.
C18_ScopingNeverIncreases ==
  StatsDone =>
     LET unscoped == Unscoped
     IN /\ coveragePopulationStats.totalPopulation <= unscoped.totalPopulation
        /\ coveragePopulationStats.coveredPopulation <= unscoped.coveredPopulation
        /\ Len(coveragePopulationStats.rows) = Len(unscoped.rows)
        /\ \A idx \in 1..Len(coveragePopulationStats.rows) :
             coveragePopulationStats.rows[idx].population <= unscoped.rows[idx].population

\* a scope that keeps one counted cell and drops another
C18_Witness ==
  /\ StatsDone
  /\ coveragePopulationStats.isAoiFiltered
  /\ coveragePopulationStats.totalPopulation > 0
  /\ coveragePopulationStats.totalPopulation < Unscoped.totalPopulation
  /\ coveragePopulationStats.coveredPopulation > 0
  /\ coveragePopulationStats.coveredPopulation < Unscoped.coveredPopulation

\* The rings of the model are axis-parallel rectangles: a rectangle encloses
\* the positions strictly between its sides.
Encloses(ring, p) ==
  LET xs == {ring[k][1] : k \in 1..Len(ring)}
      ys == {ring[k][2] : k \in 1..Len(ring)}
  IN /\ MinOf(xs) < p[1] /\ p[1] < MaxOf(xs)
     /\ MinOf(ys) < p[2] /\ p[2] < MaxOf(ys)

\* the polygons the scope is made of, one per Polygon and one per member of a
\* MultiPolygon
ScopePolygons ==
  UNION {{aoi.features[k].polygons[m] : m \in 1..Len(aoi.features[k].polygons)} :
           k \in {i \in 1..Len(FeaturesOf(aoi)) :
                    aoi.features[i].type \in {"Polygon", "MultiPolygon"}}}

\* the scoping rule, said of a cell
TrulyInScope(feature) ==
  LET center == GetFeatureCenterLonLat(feature.geometry)
  IN /\ center # <<>>
     /\ \E polygon \in ScopePolygons :
          /\ Len(polygon) > 0
          /\ Encloses(polygon[1], center[1])
          /\ \A h \in 2..Len(polygon) : ~Encloses(polygon[h], center[1])

\* C19: with a scoping polygon set, the cells in scope are exactly those whose
\* extracted centre exists and lies inside the outer ring and outside every
\* hole of at least one scoping polygon, each polygon of a MultiPolygon on its
\* own; a polygon with no ring accepts no cell; with no scoping polygon every
\* cell is in scope.
C19_ScopingRule ==
  (StatsDone /\ Len(FeaturesOf(h3PopulationLayer)) > 0) =>
     /\ coveragePopulationStats.isAoiFiltered = (ScopePolygons # {})
     /\ scopedPopFeatures =
          IF ScopePolygons # {}
            THEN SelectSeq(h3PopulationLayer.features, TrulyInScope)
            ELSE h3PopulationLayer.features

\* a MultiPolygon scope: the cell in the hole of its first polygon is dropped,
\* the cell in its second polygon is kept
C19_Witness ==
  /\ StatsDone
  /\ \E k \in 1..Len(FeaturesOf(aoi)) : aoi.features[k].type = "MultiPolygon"
  /\ Len(FeaturesOf(h3PopulationLayer)) = 2
  /\ GetFeatureCenterLonLat(h3PopulationLayer.features[1].geometry) = << <<8, 8>> >>
  /\ GetFeatureCenterLonLat(h3PopulationLayer.features[2].geometry) = << <<24, 4>> >>
  /\ scopedPopFeatures = <<h3PopulationLayer.features[2]>>

\* the population of a step summed over the first n scoped cells
RECURSIVE PopulationInStep(_, _)
PopulationInStep(step, n) ==
  IF n = 0 THEN 0
  ELSE LET feature == scopedPopFeatures[n]
           population == OrZero(Number(feature.population))
           byCell == AccessibilityByCell(FeaturesOf(h3AccessibilityLayer),
                                         Len(FeaturesOf(h3AccessibilityLayer)))
           accessibility == Lookup(byCell, GetCellKey(feature))
       IN PopulationInStep(step, n - 1) +
          (IF population > 0 /\ StepOf([nan |-> FALSE, v |-> accessibility]) = step
             THEN population ELSE 0)

\* C20: a non-empty population layer gives exactly 11 rows, for the steps
\* "1.0", "0.9", ..., "0.0" in this order; each row carries the population of
\* its step and that population as a percentage of the total, and every
\* percentage is 0 when the total is 0.
C20_ElevenRowsDescending ==
  (StatsDone /\ Len(FeaturesOf(h3PopulationLayer)) > 0) =>
     /\ Len(coveragePopulationStats.rows) = 11
     /\ [idx \in 1..11 |-> coveragePopulationStats.rows[idx].step] =
          <<"1.0", "0.9", "0.8", "0.7", "0.6", "0.5", "0.4", "0.3", "0.2", "0.1", "0.0">>
     /\ \A idx \in 1..11 :
          LET row == coveragePopulationStats.rows[idx]
          IN /\ row.population = PopulationInStep(row.step, Len(scopedPopFeatures))
             /\ IF coveragePopulationStats.totalPopulation = 0
                  THEN RatioIs(row.percentage, 0)
                  ELSE row.percentage.num * coveragePopulationStats.totalPopulation =
                         row.population * 100 * row.percentage.den

\* the scope holds no cell of a populated layer: 11 rows, every percentage 0
C20_Witness ==
  /\ StatsDone
  /\ Unscoped.totalPopulation > 0
  /\ coveragePopulationStats.isAoiFiltered
  /\ scopedPopFeatures = <<>>
  /\ coveragePopulationStats.totalPopulation = 0
  /\ Len(coveragePopulationStats.rows) = 11

\* ============================================================================
\* Properties of the marker quantile (checked under SpecQuantile)
\* ============================================================================
\* the k-th smallest value of the sample, k in 1..Len(populations)
OrderStatistic(k) ==
  CHOOSE x \in {populations[i] : i \in 1..Len(populations)} :
    /\ Cardinality({i \in 1..Len(populations) : populations[i] < x}) < k
    /\ Cardinality({i \in 1..Len(populations) : populations[i] <= x}) >= k

\* C21: quantile interpolates linearly, on the sample sorted ascending, at
\* position (n - 1) * q between the two order statistics that bracket it; it
\* is 0 for an empty sample, and 70 for [10, 20, 30, 40, 90] with q = 0.9.
C21_QuantileInterpolates ==
  markersPc = "done" =>
     LET n == Len(populations)
         pos == (n - 1) * quantileQ                 \* in tenths
         lower == pos \div 10 + 1
         upper == IF lower < n THEN lower + 1 ELSE lower
     IN /\ n = 0 => RatioIs(p90, 0)
        /\ n > 0 =>
             p90.num * 10 =
               p90.den * (10 * OrderStatistic(lower)
                          + (pos % 10) * (OrderStatistic(upper) - OrderStatistic(lower)))
        /\ (populations = <<10, 20, 30, 40, 90>> /\ quantileQ = 9) => RatioIs(p90, 70)

C21_Witness ==
  /\ markersPc = "done"
  /\ populations = <<10, 20, 30, 40, 90>>
  /\ quantileQ = P90
  /\ RatioIs(p90, 70)

\* ============================================================================
\* Properties of searches and recomputes (checked under Spec)
\* ============================================================================
\* The step applies the successful response to search request req.
SearchResponseApplied(req) ==
  /\ req \in searches
  /\ req \notin searches'
  /\ h3PopulationLayer' = SearchLayer(req.id)
  /\ h3AccessibilityLayer' = SearchLayer(req.id)

\* C22: a recompute response writes none of origIsochronesLayer,
\* origH3AccessibilityLayer and baseCoverageParams; these change only in the
\* step that applies a successful search response, the two layers to the layer
\* that response delivered; so a step that activates a search layer, the
\* restore path included, activates the original delivered by a search.
C22_RecomputeKeepsOriginals ==
  [][/\ (\E i \in InstanceIds : ReplyHandled(i)) =>
          UNCHANGED <<origIsochronesLayer, origH3AccessibilityLayer, baseCoverageParams>>
     /\ (origIsochronesLayer' # origIsochronesLayer) =>
          \E req \in searches :
            SearchResponseApplied(req) /\ origIsochronesLayer' = SearchLayer(req.id)
     /\ (origH3AccessibilityLayer' # origH3AccessibilityLayer) =>
          \E req \in searches :
            SearchResponseApplied(req) /\ origH3AccessibilityLayer' = SearchLayer(req.id)
     /\ (baseCoverageParams' # baseCoverageParams) =>
          \E req \in searches : SearchResponseApplied(req)
     /\ origIsochronesLayer'.src \in {"none", "search"}
     /\ origH3AccessibilityLayer'.src \in {"none", "search"}
     /\ (isochronesLayer' # isochronesLayer /\ isochronesLayer'.src = "search") =>
          isochronesLayer' = origIsochronesLayer'
     /\ (h3AccessibilityLayer' # h3AccessibilityLayer /\ h3AccessibilityLayer'.src = "search") =>
          h3AccessibilityLayer' = origH3AccessibilityLayer'
    ]_vars

\* a recompute response replaced both active layers and the originals are
\* still the ones of the search
C22_Witness ==
  /\ lastReply.kind = "ok"
  /\ isochronesLayer.src = "recompute"
  /\ h3AccessibilityLayer.src = "recompute"
  /\ origIsochronesLayer.src = "search"
  /\ origH3AccessibilityLayer.src = "search"
  /\ baseCoverageParams.maxDistance # maxDistance

\* no debounce timer is pending and no request whose answer would be used is
\* in flight, in the state the step leads to
NothingLiveAfter ==
  \A i \in InstanceIds :
    instances'[i].phase \in {"timer", "inflight"} => instances'[i].cancelled

\* C23: applying a successful search response leaves minConfidence = 1 and the
\* baseline and the current maxDistance and elasticity all equal to the
\* effective configuration of the response (its max_distance, or the distance
\* captured at submission when it reports none), so the effect takes no
\* recompute path: no timer is armed and no request is live afterwards, even
\* when the sliders differed from the response before.
C23_SearchIssuesNoRecompute ==
  [][\A req \in searches :
       SearchResponseApplied(req) =>
         /\ minConfidence' = 1
         /\ maxDistance' = baseCoverageParams'.maxDistance
         /\ elasticity' = baseCoverageParams'.elasticity
         /\ maxDistance' \in {ServerDistance, req.maxDistance}
         /\ elasticity' \in {DEFAULT_ELASTICITY, ServerElasticity}
         /\ NothingLiveAfter
         /\ current' = 0
         /\ \A i \in InstanceIds : ~RequestIssued(i)
    ]_vars

\* the second search was applied after a slider change had armed a recompute:
\* the recompute is cleared or cancelled and the sliders are the response's
C23_Witness ==
  /\ searches = {}
  /\ facilitiesLayer = SearchLayer(2)
  /\ instances[1].phase = "cleared" \/ instances[1].cancelled
  /\ \A i \in InstanceIds : ~Live(i)
  /\ minConfidence = 1
  /\ maxDistance = ServerDistance
  /\ elasticity = ServerElasticity
  /\ baseCoverageParams = [maxDistance |-> ServerDistance, elasticity |-> ServerElasticity]

\* C25: at any time at most one recompute attempt is live (a pending debounce
\* timer, or an in-flight request whose cancelled flag is false), and it is the
\* one the latest run of the effect armed: every earlier attempt was cleared or
\* cancelled by the cleanup before the new one was scheduled.
C25_AtMostOneLiveAttempt ==
  /\ Cardinality({i \in InstanceIds : Live(i)}) <= 1
  /\ \A i \in InstanceIds : Live(i) => i = current
  /\ \A i \in InstanceIds :
       (i < nextInst /\ i # current) =>
          \/ instances[i].phase \in {"cleared", "finished"}
          \/ instances[i].phase = "inflight" /\ instances[i].cancelled

\* a second attempt is live while the first one, superseded in flight, is
\* cancelled and still unanswered
C25_Witness ==
  /\ instances[1].phase = "inflight"
  /\ instances[1].cancelled
  /\ Live(2)
  /\ current = 2

\* C26: once a successful search response has been applied (the effect has
\* run and nothing is live), each active layer (buffer, hex accessibility,
\* population, search AOI) is the one this response delivered, or is absent;
\* no layer of an earlier search is still active.
C26_LayersOfLatestSearch ==
  [][\A req \in searches :
       (SearchResponseApplied(req) /\ NothingLiveAfter) =>
          /\ isochronesLayer' \in {Null, SearchLayer(req.id)}
          /\ h3AccessibilityLayer' \in {Null, SearchLayer(req.id)}
          /\ h3PopulationLayer' \in {Null, SearchLayer(req.id)}
          /\ aoiLayer' \in {Null, SearchLayer(req.id)}
    ]_vars

\* C27: overlapping searches resolve to the latest submission: the successful
\* response of an earlier submission, arriving after the response of a later
\* one has been applied, replaces none of the active layers, the originals,
\* the baseline configuration and the results of the later search.
C27_LatestSubmissionWins ==
  [][\A req \in searches :
       (/\ facilitiesLayer.src = "search"
        /\ facilitiesLayer.id > req.id
        /\ h3PopulationLayer = SearchLayer(facilitiesLayer.id)
        /\ req \notin searches') =>
          /\ facilitiesLayer' = facilitiesLayer
          /\ isochronesLayer' = isochronesLayer
          /\ h3AccessibilityLayer' = h3AccessibilityLayer
          /\ h3PopulationLayer' = h3PopulationLayer
          /\ aoiLayer' = aoiLayer
          /\ origIsochronesLayer' = origIsochronesLayer
          /\ origH3AccessibilityLayer' = origH3AccessibilityLayer
          /\ baseCoverageParams' = baseCoverageParams
    ]_vars

\* ============================================================================
\* Frame of the coverage statistics (checked under SpecStatsFrame)
\* ============================================================================
\* C24: the statistics are a function of the population layer, the hex
\* accessibility layer and the user-drawn aoi alone: a render in which only the
\* coverage mode, the buffer layer or the search AOI layer changed leaves the
\* totals and every row as they were.
C24_StatsOnlyDependOnTheirInputs ==
  StatsDone =>
     /\ coveragePopulationStats =
          CoveragePopulationStats(h3PopulationLayer, h3AccessibilityLayer, aoi)
     /\ prevStats # <<>> =>
          /\ coveragePopulationStats.totalPopulation = prevStats[1].totalPopulation
          /\ coveragePopulationStats.coveredPopulation = prevStats[1].coveredPopulation
          /\ coveragePopulationStats.weightedAccessibility = prevStats[1].weightedAccessibility
          /\ coveragePopulationStats.rows = prevStats[1].rows
          /\ coveragePopulationStats = prevStats[1]

\* the mode was toggled and both layers were replaced under statistics that
\* count people, some of them outside every covered step
C24_Witness ==
  /\ StatsDone
  /\ prevStats # <<>>
  /\ coverageMode = "h3"
  /\ isochronesLayer.present /\ Len(isochronesLayer.features) > 0
  /\ aoiLayer.present /\ Len(aoiLayer.features) > 0
  /\ aoi = NullLayer
  /\ coveragePopulationStats.hasData
  /\ coveragePopulationStats.totalPopulation > 0
  /\ coveragePopulationStats.coveredPopulation > 0

\* ============================================================================
\* Conservation in the coverage statistics (checked under SpecStats)
\* ============================================================================
\* the population of the first n rows
RECURSIVE SumOfRowPopulations(_)
SumOfRowPopulations(n) ==
  IF n = 0 THEN 0
  ELSE SumOfRowPopulations(n - 1) + coveragePopulationStats.rows[n].population

\* the percentages of the first n rows, added as multiples of 1 / common
RECURSIVE SumOfRowPercentages(_, _)
SumOfRowPercentages(n, common) ==
  IF n = 0 THEN 0
  ELSE SumOfRowPercentages(n - 1, common) +
       coveragePopulationStats.rows[n].percentage.num *
         (common \div coveragePopulationStats.rows[n].percentage.den)

RECURSIVE PopulationBarelyCovered(_)
PopulationBarelyCovered(n) ==
  IF n = 0 THEN 0
  ELSE LET feature == scopedPopFeatures[n]
           population == OrZero(Number(feature.population))
           byCell == AccessibilityByCell(FeaturesOf(h3AccessibilityLayer),
                                         Len(FeaturesOf(h3AccessibilityLayer)))
           accessibility == Lookup(byCell, GetCellKey(feature))
       IN PopulationBarelyCovered(n - 1) +
          (IF population > 0 /\ accessibility > 0 /\ 20 * accessibility < ACC_ONE
             THEN population ELSE 0)

\* C30: the row of step "0.0" holds the uncovered population,
\* totalPopulation - coveredPopulation (the counted cells with accessibility 0
\* or without an accessibility entry), plus the population of the counted
\* cells with 0 < accessibility < 0.05; it is never below the uncovered
\* population.
C30_ZeroStepAndCovered ==
  (StatsDone /\ coveragePopulationStats.hasData) =>
     LET stats == coveragePopulationStats
         uncovered == stats.totalPopulation - stats.coveredPopulation
         zeroStep == RowOf("0.0").population
     IN /\ zeroStep = uncovered + PopulationBarelyCovered(Len(scopedPopFeatures))
        /\ zeroStep >= uncovered
        /\ uncovered >= 0

\* step "0.0" holds both people without coverage and people whose cell has an
\* accessibility below 0.05
C30_Witness ==
  /\ StatsDone
  /\ coveragePopulationStats.hasData
  /\ coveragePopulationStats.totalPopulation > coveragePopulationStats.coveredPopulation
  /\ PopulationBarelyCovered(Len(scopedPopFeatures)) > 0
  /\ RowOf("0.0").population = coveragePopulationStats.totalPopulation

\* ============================================================================
\* The tolerance and the step (checked under SpecStep)
\* ============================================================================
\* the position of a step label: 0 for "0.0", ..., 10 for "1.0"
StepIndex(step) == CHOOSE k \in 0..10 : StepLabels[k + 1] = step

\* C29: for every v in [0, 1] the step with tolerance is the step without it,
\* round(v * 10) / 10, or the next one above, never a lower one; and the step
\* never decreases when v grows.
C29_ToleranceMovesUpByAtMostOne ==
  (StatsDone /\ ProbeInUnitInterval) =>
     LET untolerated == NearestTenth(probe.v)
         tolerated == StepIndex(probeStep)
     IN /\ tolerated \in {untolerated, untolerated + 1}
        /\ tolerated >= untolerated
        /\ \A w \in ProbeValues :
             (IsFinite(w) /\ w.v >= 0 /\ w.v <= probe.v) =>
                StepIndex(StepOf(w)) <= tolerated

\* 0.56 is in step "0.6" with or without the tolerance, 0.6 moves up to "0.7"
C29_Witness ==
  /\ StatsDone
  /\ probe = [nan |-> FALSE, v |-> 600]
  /\ probeStep = "0.7"
  /\ StepOf([nan |-> FALSE, v |-> 560]) = "0.6"
====
